---------------------------- MODULE Spec2Model ----------------------------
(***************************************************************************)
(* A model of pi_svg: the SvgRenderer facade (src/src/draw_svg.rs and its  *)
(* earlier revision src/src/svg_renderer.rs), the Camera fit transform     *)
(* (src/src/camera.rs, src/src/framework.rs) and the keyed scene cache the *)
(* examples call (examples/polylines.rs).                                  *)
(*                                                                         *)
(* f32 values are modelled as exact rationals <<n, d>> with d > 0 in       *)
(* lowest terms; Vector2I / Vector2F as pairs <<x, y>>; Option<T> as a     *)
(* sequence of length 0 (None) or 1 (Some).                                *)
(***************************************************************************)
EXTENDS Integers, Sequences, FiniteSets, TLC

VARIABLES
    \* ---- Camera::new as a pure function (camera.rs) ----
    fit_view_box,       \* RectF argument: [origin, size]
    fit_viewport_size,  \* Vector2I argument
    fit_camera,         \* Option<Camera>: the value returned, once called
    \* ---- SvgRenderer of draw_svg.rs ----
    scene_proxy,        \* Option<SceneProxy>
    renderer,           \* Option<Renderer<DeviceImpl>>
    clear_color,        \* ColorF
    target_size,        \* Vector2I
    viewport_offset,    \* Vector2I
    viewport_size,      \* Option<Vector2I>
    result,             \* what the last call returned and submitted to the device
    last_set_viewport,  \* history: the arguments of the most recent set_viewport
                        \* call, and the most recent Some(size) any call passed
    \* ---- keyed scene cache and scene selection (called by examples/polylines.rs) ----
    cache,              \* SceneKey -> Option<SceneEntry>
    active_key,         \* the selected SceneKey, 0 while none is selected
    live_keys,          \* history: keys loaded successfully and not unloaded since
    cache_result,       \* what the last cache call was and returned
    \* ---- SvgRenderer of svg_renderer.rs ----
    svg_renderer,       \* the struct, a record of its fields
    sr_result,          \* what its last call returned and submitted
    \* ---- DemoApp (lib.rs, renderer.rs) in the frame loop of examples/hello.rs ----
    app,                \* the DemoApp and its device, a record
    demo_pc,            \* the call main() makes next
    events,             \* length of the events vector of this iteration
    scene_count,        \* what prepare_frame returned
    scene_index,        \* the index of the composite loop
    \* ---- WindowImpl and EVENT_QUEUE (examples/hello.rs) ----
    window_impl,        \* pending_events, mouse_position, mouse_down
    event_queue,        \* pending_custom_events of the EventQueue in EVENT_QUEUE
    queue_lock,         \* the thread holding the EVENT_QUEUE mutex, 0 if free
    winit_queue,        \* events the EventsLoop has not dispatched yet
    window_events_left, \* how many more events the window system will send
    win_pc,             \* where the window's thread is: idle or inside a loop call
    pusher_pc,          \* per pushing thread: idle or between push_back and wakeup
    pushed,             \* history: the messages pushed, in the order of push_back
    delivered,          \* history: the Events get_event and try_get_event returned
    dispatched,         \* history: the window events given to convert_winit_event
    conv                \* history: the last conversion, its input and output

fitVars == <<fit_view_box, fit_viewport_size, fit_camera>>
svgVars == <<scene_proxy, renderer, clear_color, target_size, viewport_offset,
             viewport_size, result, last_set_viewport>>
cacheVars == <<cache, active_key, live_keys, cache_result>>
srVars == <<svg_renderer, sr_result>>
demoVars == <<app, demo_pc, events, scene_count, scene_index>>
winVars == <<window_impl, event_queue, queue_lock, winit_queue, window_events_left,
             win_pc, pusher_pc, pushed, delivered, dispatched, conv>>
vars == <<fitVars, svgVars, cacheVars, srVars, demoVars, winVars>>

----------------------------------------------------------------------------
\* Bounds of the model.
MaxDim == 2         \* viewport and view-box dimensions range over 1..MaxDim
MaxOrigin == 1      \* view-box origins range over 0..MaxOrigin
MaxOff == 1         \* viewport offsets range over 0..MaxOff
MaxFbo == 1         \* framebuffer ids range over 0..MaxFbo; framebuffer f is
                    \* (f + 1) x (f + 1) pixels

None == <<>>
Some(x) == <<x>>
IsSome(o) == Len(o) = 1
Unwrap(o) == o[1]

----------------------------------------------------------------------------
\* Exact rational arithmetic standing for f32.
Abs(n) == IF n < 0 THEN -n ELSE n

RECURSIVE GCD(_, _)
GCD(a, b) == IF b = 0 THEN a ELSE GCD(b, a % b)

Rat(n, d) ==
    LET s == IF d < 0 THEN -1 ELSE 1
        g == GCD(Abs(n), Abs(d))
    IN  <<(s * n) \div g, (s * d) \div g>>

RInt(n) == <<n, 1>>
RMul(a, b) == Rat(a[1] * b[1], a[2] * b[2])
RAdd(a, b) == Rat(a[1] * b[2] + b[1] * a[2], a[2] * b[2])
RSub(a, b) == Rat(a[1] * b[2] - b[1] * a[2], a[2] * b[2])
RInv(a) == Rat(a[2], a[1])
RLe(a, b) == a[1] * b[2] <= b[1] * a[2]
RLt(a, b) == a[1] * b[2] < b[1] * a[2]
RMin(a, b) == IF RLe(a, b) THEN a ELSE b
Half == Rat(1, 2)

IMin(a, b) == IF a <= b THEN a ELSE b

\* Vector2I::to_f32
to_f32(v) == <<RInt(v[1]), RInt(v[2])>>
\* Vector2F * f32 and Vector2F - Vector2F
VScale(v, k) == <<RMul(v[1], k), RMul(v[2], k)>>
VSub(a, b) == <<RSub(a[1], b[1]), RSub(a[2], b[2])>>
VAdd(a, b) == <<RAdd(a[1], b[1]), RAdd(a[2], b[2])>>
VZero == <<RInt(0), RInt(0)>>
\* RectF::new(origin, size)
RectNew(origin, size) == [origin |-> origin, size |-> size]

----------------------------------------------------------------------------
\* Transform2F::from_scale(scale).translate(origin): p' = p * scale + origin.
Transform(scale, origin) == [scale |-> scale, origin |-> origin]
Apply(t, p) == <<RAdd(RMul(p[1], t.scale), t.origin[1]),
                 RAdd(RMul(p[2], t.scale), t.origin[2])>>

\* Camera::new(view_box, viewport_size)
CameraNew(view_box, vp_size) ==
    LET s == RInv(RMin(view_box.size[1], view_box.size[2]))
        scale == RMul(RInt(IMin(vp_size[1], vp_size[2])), s)
        origin == VSub(VScale(to_f32(vp_size), Half),
                       VScale(view_box.size, RMul(scale, Half)))
    IN  Transform(scale, origin)

----------------------------------------------------------------------------
\* SVG byte strings handed to load_svg.  usvg is an external parser: a byte
\* string is either rejected or yields a tree whose root node has a size
\* (f64 width, height) and a view box; a tree may use features the scene
\* builder does not support.
MaxHalf == 2        \* natural widths range over 1/2 .. MaxHalf/2

Malformed == [valid |-> FALSE]
SvgDoc(w2, h2) ==
    [valid |-> TRUE,
     size |-> <<Rat(w2, 2), Rat(h2, 2)>>,
     view_box |-> RectNew(VZero, <<Rat(w2, 2), Rat(h2, 2)>>),
     unsupported |-> {}]
\* The same document with a filter node, which the scene builder skips.
WithUnsupported(doc) == [doc EXCEPT !.unsupported = {"UNSUPPORTED_FILTER_NODE"}]
ValidSvg == {SvgDoc(w2, 2) : w2 \in 1..MaxHalf}
              \cup {WithUnsupported(SvgDoc(MaxHalf, 2))}
SvgData == {Malformed} \cup ValidSvg

\* SvgTree::from_data(data, &UsvgOptions::default())
from_data(data) ==
    IF data.valid
    THEN [ok |-> TRUE, svg |-> [size |-> data.size, view_box |-> data.view_box,
                                unsupported |-> data.unsupported]]
    ELSE [ok |-> FALSE]

\* SVGScene::from_tree_and_scene(&svg, Scene::new()): the scene built from the
\* supported part of the tree, and the flags of what was skipped.
from_tree_and_scene(svg) ==
    [scene |-> [size |-> svg.size, view_box |-> svg.view_box],
     result_flags |-> svg.unsupported]

\* log::warn!(..) when result_flags is not empty
LogWarn(result_flags) ==
    IF result_flags = {} THEN <<>>
    ELSE <<[cmd |-> "log_warn", flags |-> result_flags]>>

\* f64 as i32: truncation toward zero (sizes are never negative)
AsI32(r) == r[1] \div r[2]

\* ColorF values used as clear colours
Red == "red"        \* ColorF::new(1.0, 0.0, 0.0, 1.0), the constructor default
Colors == {"red", "yellow"}

Offsets == {<<x, MaxOff - x>> : x \in 0..MaxOff}
ViewportSizes == {<<w, MaxDim + 1 - w>> : w \in 1..MaxDim}
FboIds == 0..MaxFbo
\* Render targets: a framebuffer id and the size of that framebuffer.
Targets == {[fbo |-> f, size |-> <<f + 1, f + 1>>] : f \in FboIds}
TargetSizes == {t.size : t \in Targets}

\* RendererOptions { background_color, dest: DestFramebuffer::Default { viewport, window_size } }
RendererOptions(color, vp_offset, vp_size, window_size) ==
    [background_color |-> Some(color),
     viewport |-> [origin |-> vp_offset, size |-> vp_size],
     window_size |-> window_size]

\* The struct SvgRenderer as a record of its fields.
Self == [scene_proxy |-> scene_proxy, renderer |-> renderer,
         clear_color |-> clear_color, target_size |-> target_size,
         viewport_offset |-> viewport_offset, viewport_size |-> viewport_size]

\* A set_target that also resets the viewport offset.
set_target_resets_offset(self, fbo_id, target_w, target_h) ==
    LET s1 == [self EXCEPT !.target_size = <<target_w, target_h>>,
                           !.viewport_offset = <<0, 0>>]
        vs == IF IsSome(s1.viewport_size) THEN Unwrap(s1.viewport_size) ELSE <<1, 1>>
    IN  [s1 EXCEPT !.renderer =
            Some([fbo |-> fbo_id,
                  options |-> [background_color |-> Some(s1.clear_color),
                               viewport |-> [origin |-> s1.viewport_offset, size |-> vs],
                               window_size |-> s1.target_size]])]

\* A set_target that creates the renderer only when there is none yet.
set_target_keeps_renderer(self, fbo_id, target_w, target_h) ==
    LET s1 == [self EXCEPT !.target_size = <<target_w, target_h>>]
        vs == IF IsSome(s1.viewport_size) THEN Unwrap(s1.viewport_size) ELSE <<1, 1>>
    IN  IF IsSome(self.renderer)
        THEN s1
        ELSE [s1 EXCEPT !.renderer =
                Some([fbo |-> fbo_id,
                      options |-> [background_color |-> Some(s1.clear_color),
                                   viewport |-> [origin |-> s1.viewport_offset, size |-> vs],
                                   window_size |-> s1.target_size]])]

\* A set_target that drops the scene proxy, as svg_renderer.rs:97-98 does.
set_target_drops_scene(self, fbo_id, target_w, target_h) ==
    LET s1 == [self EXCEPT !.target_size = <<target_w, target_h>>,
                           !.scene_proxy = None]
        vs == IF IsSome(s1.viewport_size) THEN Unwrap(s1.viewport_size) ELSE <<1, 1>>
    IN  [s1 EXCEPT !.renderer =
            Some([fbo |-> fbo_id,
                  options |-> [background_color |-> Some(s1.clear_color),
                               viewport |-> [origin |-> s1.viewport_offset, size |-> vs],
                               window_size |-> s1.target_size]])]

\* fn set_target(&mut self, fbo_id, target_w, target_h)
set_target(self, fbo_id, target_w, target_h) ==
    LET s1 == [self EXCEPT !.target_size = <<target_w, target_h>>]
        vs == IF IsSome(s1.viewport_size) THEN Unwrap(s1.viewport_size) ELSE <<1, 1>>
    IN  [s1 EXCEPT !.renderer =
            Some([fbo |-> fbo_id,
                  options |-> RendererOptions(s1.clear_color, s1.viewport_offset,
                                              vs, s1.target_size)])]

\* A set_viewport that stores the size argument as it is given, None included.
set_viewport_stores_none(self, x, y, size) ==
    [self EXCEPT !.viewport_offset = <<x, y>>, !.viewport_size = size]

\* fn set_viewport(&mut self, x, y, size: Option<(i32, i32)>)
set_viewport(self, x, y, size) ==
    LET s1 == [self EXCEPT !.viewport_offset = <<x, y>>]
    IN  IF IsSome(size)
        THEN [s1 EXCEPT !.viewport_size = Some(Unwrap(size))]
        ELSE s1

\* pub fn set_clear_color(&mut self, r, g, b, a)
set_clear_color(self, color) == [self EXCEPT !.clear_color = color]

\* A load_svg that takes the viewport size from every SVG it loads.
load_svg_resizes(self, data) ==
    LET s1 == [self EXCEPT !.scene_proxy = None]
        parsed == from_data(data)
    IN  IF ~parsed.ok
        THEN [self |-> s1, ret |-> "Err(Load)", log |-> <<>>]
        ELSE
          LET svg == parsed.svg
              built == from_tree_and_scene(svg)
              vp_size == <<AsI32(svg.size[1]), AsI32(svg.size[2])>>
              scene == [svg |-> built.scene, view_box |-> RectNew(VZero, to_f32(vp_size))]
          IN  [self |-> [s1 EXCEPT !.viewport_size = Some(vp_size),
                                   !.scene_proxy =
                                     Some([scene |-> scene,
                                           transform |-> CameraNew(svg.view_box, vp_size)])],
               ret |-> "Ok", log |-> LogWarn(built.result_flags)]

\* A load_svg that fails when the scene builder reports unsupported features.
load_svg_rejects_unsupported(self, data) ==
    LET s1 == [self EXCEPT !.scene_proxy = None]
        parsed == from_data(data)
    IN  IF ~parsed.ok
        THEN [self |-> s1, ret |-> "Err(Load)", log |-> <<>>]
        ELSE
          LET svg == parsed.svg
              built == from_tree_and_scene(svg)
              s2 == IF IsSome(s1.viewport_size)
                    THEN s1
                    ELSE [s1 EXCEPT !.viewport_size =
                             Some(<<AsI32(svg.size[1]), AsI32(svg.size[2])>>)]
              vp_size == Unwrap(s2.viewport_size)
              scene == [svg |-> built.scene, view_box |-> RectNew(VZero, to_f32(vp_size))]
          IN  IF built.result_flags # {}
              THEN [self |-> s1, ret |-> "Err(Load)", log |-> LogWarn(built.result_flags)]
              ELSE [self |-> [s2 EXCEPT !.scene_proxy =
                                Some([scene |-> scene,
                                      transform |-> CameraNew(svg.view_box, vp_size)])],
                    ret |-> "Ok", log |-> <<>>]

\* pub fn load_svg(&mut self, data) -> Result<(), SvgError>
load_svg(self, data) ==
    LET s1 == [self EXCEPT !.scene_proxy = None]
        parsed == from_data(data)
    IN  IF ~parsed.ok
        THEN [self |-> s1, ret |-> "Err(Load)", log |-> <<>>]
        ELSE
          LET svg == parsed.svg
              \* let scene = SVGScene::from_tree_and_scene(..); warn on result_flags
              built == from_tree_and_scene(svg)
              s2 == IF IsSome(s1.viewport_size)
                    THEN s1
                    ELSE [s1 EXCEPT !.viewport_size =
                             Some(<<AsI32(svg.size[1]), AsI32(svg.size[2])>>)]
              vp_size == Unwrap(s2.viewport_size)
              view_box == svg.view_box
              \* scene.set_view_box(RectF::new(zero, viewport.size().to_f32()))
              scene == [svg |-> built.scene, view_box |-> RectNew(VZero, to_f32(vp_size))]
              camera == CameraNew(view_box, vp_size)
          IN  [self |-> [s2 EXCEPT !.scene_proxy =
                            Some([scene |-> scene, transform |-> camera])],
               ret |-> "Ok", log |-> LogWarn(built.result_flags)]

\* What a call returned and what it submitted to the device (for load_svg,
\* what it logged); op is "new",
\* "load_svg", "draw_once", or "set" for the methods that return nothing.
Call(op, ret, cmds) == [op |-> op, ret |-> ret, cmds |-> cmds]

\* Device commands
BeginCommands == [cmd |-> "begin_commands"]
EndCommands == [cmd |-> "end_commands"]
Render(proxy, r) ==
    [cmd |-> "render", fbo |-> r.fbo, scene |-> proxy.scene,
     transform |-> proxy.transform, options |-> r.options]

\* A draw_once that renders with the options the renderer was created with.
draw_once_stale_options(self, tsize) ==
    IF ~IsSome(self.scene_proxy)
    THEN [self |-> self, ret |-> "Err(NoLoad)", cmds |-> <<>>]
    ELSE IF ~IsSome(self.renderer) /\ ~IsSome(tsize)
    THEN [self |-> self, ret |-> "Panic", cmds |-> <<>>]
    ELSE
      LET s1 == IF IsSome(self.renderer)
                THEN self
                ELSE set_target(self, 0, Unwrap(tsize)[1], Unwrap(tsize)[2])
      IN  IF ~IsSome(s1.viewport_size)
          THEN [self |-> s1, ret |-> "Panic", cmds |-> <<>>]
          ELSE [self |-> s1, ret |-> "Ok",
                cmds |-> <<BeginCommands,
                           Render(Unwrap(s1.scene_proxy), Unwrap(s1.renderer)),
                           EndCommands>>]

\* pub fn draw_once(&mut self, target_size: Option<(i32, i32)>) -> Result<(), SvgError>
\* target_size.unwrap() (line 151) and self.viewport_size.unwrap() (line 162)
\* panic on None.
draw_once(self, tsize) ==
    IF ~IsSome(self.scene_proxy)
    THEN [self |-> self, ret |-> "Err(NoLoad)", cmds |-> <<>>]
    ELSE IF ~IsSome(self.renderer) /\ ~IsSome(tsize)
    THEN [self |-> self, ret |-> "Panic", cmds |-> <<>>]
    ELSE
      LET s1 == IF IsSome(self.renderer)
                THEN self
                ELSE set_target(self, 0, Unwrap(tsize)[1], Unwrap(tsize)[2])
      IN  IF ~IsSome(s1.viewport_size)
          THEN [self |-> s1, ret |-> "Panic", cmds |-> <<>>]
          ELSE
            LET r1 == [Unwrap(s1.renderer) EXCEPT !.options =
                          RendererOptions(s1.clear_color, s1.viewport_offset,
                                          Unwrap(s1.viewport_size), s1.target_size)]
                s2 == [s1 EXCEPT !.renderer = Some(r1)]
            IN  [self |-> s2, ret |-> "Ok",
                 cmds |-> <<BeginCommands, Render(Unwrap(s2.scene_proxy), r1),
                            EndCommands>>]

\* A constructor that leaves the render target to the first draw_once.
new_without_target(fbo_id, target_w, target_h, vp_offset, vp_size) ==
    LET s0 == [scene_proxy |-> None, renderer |-> None, clear_color |-> Red,
               viewport_offset |-> <<0, 0>>, viewport_size |-> None,
               target_size |-> <<1, 1>>]
    IN  set_viewport(s0, vp_offset[1], vp_offset[2], vp_size)

\* pub fn new(fbo_id, target_w, target_h, vp_offset, vp_size) -> Self
new(fbo_id, target_w, target_h, vp_offset, vp_size) ==
    LET s0 == [scene_proxy |-> None, renderer |-> None, clear_color |-> Red,
               viewport_offset |-> <<0, 0>>, viewport_size |-> None,
               target_size |-> <<1, 1>>]
        s1 == set_target(s0, fbo_id, target_w, target_h)
    IN  set_viewport(s1, vp_offset[1], vp_offset[2], vp_size)

----------------------------------------------------------------------------
\* The keyed scene cache (SceneCache) and scene selection (RenderSession).
\* examples/polylines.rs:150-161 calls load_svg(svg_key, data) and
\* draw_once(svg_key); the implementation is not among the sources, so the
\* operations follow spec.md sections 4.2 and 4.3.
MaxKey == 2         \* scene keys range over 0..MaxKey; 0 is the reserved key

Keys == 0..MaxKey
EmptyCache == [k \in Keys |-> None]

\* get(key)
cache_get(c, key) == c[key]

\* A load that parses again and replaces the entry of a key already present.
cache_load_replace(c, key, bytes) ==
    IF key = 0
    THEN [cache |-> c, ret |-> "Err(InvalidKey)", parsed |-> FALSE]
    ELSE
      LET p == from_data(bytes) IN
        IF ~p.ok
        THEN [cache |-> c, ret |-> "Err(ParseError)", parsed |-> TRUE]
        ELSE [cache |-> [c EXCEPT ![key] =
                           Some([key |-> key, viewBox |-> p.svg.view_box,
                                 size |-> p.svg.size, payload |-> from_tree_and_scene(p.svg).scene])],
              ret |-> "Ok", parsed |-> TRUE]

\* A load that does not reject the reserved key 0.
cache_load_any_key(c, key, bytes) ==
    IF IsSome(cache_get(c, key))
    THEN [cache |-> c, ret |-> "Ok", parsed |-> FALSE]
    ELSE
      LET p == from_data(bytes) IN
        IF ~p.ok
        THEN [cache |-> c, ret |-> "Err(ParseError)", parsed |-> TRUE]
        ELSE [cache |-> [c EXCEPT ![key] =
                           Some([key |-> key, viewBox |-> p.svg.view_box,
                                 size |-> p.svg.size, payload |-> from_tree_and_scene(p.svg).scene])],
              ret |-> "Ok", parsed |-> TRUE]

\* load(key, bytes) -> Result<(), SceneError>
cache_load(c, key, bytes) ==
    IF key = 0
    THEN [cache |-> c, ret |-> "Err(InvalidKey)", parsed |-> FALSE]
    ELSE IF IsSome(cache_get(c, key))
    THEN [cache |-> c, ret |-> "Ok", parsed |-> FALSE]
    ELSE
      LET p == from_data(bytes) IN
        IF ~p.ok
        THEN [cache |-> c, ret |-> "Err(ParseError)", parsed |-> TRUE]
        ELSE [cache |-> [c EXCEPT ![key] =
                           Some([key |-> key, viewBox |-> p.svg.view_box,
                                 size |-> p.svg.size, payload |-> from_tree_and_scene(p.svg).scene])],
              ret |-> "Ok", parsed |-> TRUE]

\* An unload that drops every entry.
cache_unload_all(c, key) == [k \in DOMAIN c |-> None]

\* unload(key)
cache_unload(c, key) == [c EXCEPT ![key] = None]

\* A selection that does not look the key up.
select_scene_unchecked(c, active, key) == [active |-> key, ret |-> "Ok"]

\* A selection that makes the key active also when it reports NotLoaded.
select_scene_always_sets(c, active, key) ==
    [active |-> key,
     ret |-> IF IsSome(cache_get(c, key)) THEN "Ok" ELSE "Err(NotLoaded)"]

\* selectScene(key) -> Result<(), SceneError>
select_scene(c, active, key) ==
    IF ~IsSome(cache_get(c, key))
    THEN [active |-> active, ret |-> "Err(NotLoaded)"]
    ELSE [active |-> key, ret |-> "Ok"]

CacheCall(op, key, ret, parsed, prev) ==
    [op |-> op, key |-> key, ret |-> ret, parsed |-> parsed, prev_active |-> prev]

CacheIdle ==
    /\ cache = EmptyCache
    /\ active_key = 0
    /\ live_keys = {}
    /\ cache_result = CacheCall("new", 0, "Unit", FALSE, 0)

----------------------------------------------------------------------------
\* The SvgRenderer of svg_renderer.rs, an earlier revision of the facade:
\* viewport_size is not an Option, load_svg always overwrites it, set_target
\* takes the viewport offset, and draw_once creates a default target itself.
White == "white"    \* ColorF::new(1.0, 1.0, 1.0, 1.0)

\* impl Default for SvgRenderer
sr_default ==
    [renderer |-> None, scene |-> None, scene_proxy |-> None,
     clear_color |-> White,
     viewport_offset |-> <<0, 0>>, viewport_size |-> <<0, 0>>,
     view_box |-> RectNew(VZero, VZero)]

\* pub fn set_clear_color
sr_set_clear_color(self, color) == [self EXCEPT !.clear_color = color]

\* pub fn load_svg(&mut self, data)
sr_load_svg(self, data) ==
    LET s1 == [self EXCEPT !.scene = None, !.scene_proxy = None]
        parsed == from_data(data)
    IN  IF ~parsed.ok
        THEN [self |-> s1, ret |-> "Err(Load)", log |-> <<>>]
        ELSE
          LET root == parsed.svg
              built == from_tree_and_scene(root)
          IN
            [self |-> [s1 EXCEPT
                         !.viewport_size = <<AsI32(root.size[1]), AsI32(root.size[2])>>,
                         !.view_box = root.view_box,
                         !.scene = Some([svg |-> built.scene, view_box |-> root.view_box])],
             ret |-> "Ok", log |-> LogWarn(built.result_flags)]

\* pub fn set_target(&mut self, framebuffer_id, x, y)
sr_set_target(self, framebuffer_id, x, y) ==
    LET s1 == [self EXCEPT !.renderer = None, !.scene_proxy = None,
                           !.viewport_offset = <<x, y>>]
    IN  [s1 EXCEPT !.renderer =
           Some([fbo |-> framebuffer_id,
                 options |-> [background_color |-> None,
                              viewport |-> [origin |-> s1.viewport_offset,
                                            size |-> s1.viewport_size],
                              window_size |-> s1.viewport_size]])]

\* pub fn draw_once(&mut self): lines 130-141 create the default target when
\* there is none and then fail with NoLoad when no scene is loaded; the rest
\* (lines 143-160) builds a scene proxy with Camera::new and renders it.
sr_draw_once(self) ==
    LET s1 == IF IsSome(self.renderer) THEN self ELSE sr_set_target(self, 0, 0, 0)
    IN  IF ~IsSome(s1.scene)
        THEN [self |-> s1, ret |-> "Err(NoLoad)", cmds |-> <<>>]
        ELSE
          LET scene == Unwrap(s1.scene)
              proxy == [scene |-> [scene EXCEPT !.view_box =
                                      RectNew(VZero, to_f32(s1.viewport_size))],
                        transform |-> CameraNew(scene.view_box, s1.viewport_size)]
          IN  [self |-> s1, ret |-> "Ok",
               cmds |-> <<BeginCommands, EndCommands,
                          Render(proxy, Unwrap(s1.renderer)), BeginCommands,
                          EndCommands>>]

SrIdle ==
    /\ svg_renderer = sr_default
    /\ sr_result = Call("default", "Unit", <<>>)

----------------------------------------------------------------------------
\* DemoApp (lib.rs, renderer.rs; framework.rs makes the same device calls).
\* The record holds the fields the frame loop reads or writes, the calls made
\* on the device so far, and whether an unwrap has panicked.
MaxFrames == 3      \* the frame loop is followed for MaxFrames frames
MaxEvents == 2      \* try_get_event returns at most MaxEvents events per iteration

\* renderer.device().begin_commands() / end_commands()
DeviceBegin(a) == [a EXCEPT !.device_calls = Append(@, "begin_commands")]
DeviceEnd(a) == [a EXCEPT !.device_calls = Append(@, "end_commands")]

\* DemoApp::new: the camera comes from Camera::new
DemoNew(camera) ==
    [should_exit |-> FALSE, render_transform |-> None, camera |-> camera,
     frame_counter |-> 0, dirty |-> TRUE, current_frame |-> None,
     device_calls |-> <<>>, panicked |-> FALSE]

\* fn build_scene(&mut self)
build_scene(a) == [a EXCEPT !.render_transform = Some(a.camera)]

\* pub fn prepare_frame_rendering(&mut self) -> u32: sets the renderer options
\* and returns the scene count, which is 1
prepare_frame_rendering(a) == [app |-> a, ret |-> 1]

\* pub fn prepare_frame(&mut self) -> u32
prepare_frame(a) ==
    LET a1 == build_scene([a EXCEPT !.dirty = FALSE]) IN
      IF ~IsSome(a1.render_transform)
      THEN [app |-> [a1 EXCEPT !.panicked = TRUE], ret |-> 0]
      ELSE prepare_frame_rendering(
               [a1 EXCEPT !.current_frame =
                   Some([transform |-> Unwrap(a1.render_transform)])])

\* fn render_vector_scene(&mut self): disable_depth and scene_proxy.render
\* run in the external renderer; the DemoApp itself makes no device call here
render_vector_scene(a) == a

\* A draw_scene that leaves its command batch open.
draw_scene_leaves_batch_open(a) == DeviceBegin(a)

\* pub fn draw_scene(&mut self): begin_commands, draw_environment (empty),
\* end_commands, then render_vector_scene, which hands the scene to the
\* external renderer
draw_scene(a) == render_vector_scene(DeviceEnd(DeviceBegin(a)))

\* pub fn begin_compositing(&mut self)
begin_compositing(a) == DeviceBegin(a)

\* pub fn composite_scene(&mut self, render_scene_index: u32) {}
composite_scene(a, render_scene_index) == a

\* A finish_drawing_frame that reads the current frame without taking it.
finish_drawing_frame_keeps_frame(a) ==
    IF ~IsSome(a.current_frame)
    THEN [a EXCEPT !.panicked = TRUE]
    ELSE [DeviceEnd(a) EXCEPT !.frame_counter = a.frame_counter + 1]

\* pub fn finish_drawing_frame(&mut self): pending_screenshot_info is None
\* throughout, so maybe_take_screenshot does nothing; frame_counter is a u32
\* and stays far below its width here
finish_drawing_frame(a) ==
    IF ~IsSome(a.current_frame)
    THEN [a EXCEPT !.current_frame = None, !.panicked = TRUE]
    ELSE [DeviceEnd(a) EXCEPT !.current_frame = None,
                              !.frame_counter = a.frame_counter + 1]

\* The cameras a DemoApp is constructed with.
DemoCameras ==
    {CameraNew(d.view_box, v) : d \in ValidSvg, v \in ViewportSizes}

DemoIdle ==
    /\ app = DemoNew(CameraNew(SvgDoc(2, 2).view_box, <<1, 1>>))
    /\ demo_pc = "loop"
    /\ events = 0
    /\ scene_count = 0
    /\ scene_index = 0

----------------------------------------------------------------------------
\* WindowImpl and the global EVENT_QUEUE (examples/hello.rs).
MaxPush == 2            \* push_user_event is called at most MaxPush times
MaxWindowEvents == 3    \* a sequence of window events has at most this length
MaxInterleaved == 2     \* window events sent while push_user_event is being called
MaxPos == 1             \* cursor positions are (p + 0.5, -(p + 0.5)), p in 1..MaxPos

\* The threads that call push_user_event.
Pushers == {1, 2}

\* winit events: Awakened, or a WindowEvent: a MouseInput of the left button,
\* one of another button (which convert_winit_event ignores), or a CursorMoved
WinitEvent(kind, state, button, position) ==
    [kind |-> kind, state |-> state, button |-> button, position |-> position]
Awakened == WinitEvent("Awakened", "", "", <<Rat(0, 1), Rat(0, 1)>>)
CursorPositions == {<<Rat(2 * p + 1, 2), Rat(-(2 * p + 1), 2)>> : p \in 1..MaxPos}
MouseInput(state, button) ==
    WinitEvent("MouseInput", state, button, <<Rat(0, 1), Rat(0, 1)>>)
WindowEvents ==
    {MouseInput("Pressed", "Left"), MouseInput("Released", "Left"),
     MouseInput("Pressed", "Right")}
    \cup {WinitEvent("CursorMoved", "", "", pos) : pos \in CursorPositions}

\* enum Event of window.rs: the kind, a position for the mouse events and
\* message_data for Event::User
Event(kind, position, message_data) ==
    [kind |-> kind, position |-> position, message_data |-> message_data]

\* f64 as i32: truncation toward zero (the positions stay far inside i32)
F64AsI32(r) == IF r[1] >= 0 THEN r[1] \div r[2] ELSE -((-r[1]) \div r[2])
vec2i(x, y) == <<x, y>>

\* A push that puts the custom event at the front of the queue.
push_custom_event_front(pending_custom_events, message_data) ==
    <<message_data>> \o pending_custom_events

\* push_user_event, first half: pending_custom_events.push_back(CustomEvent::User)
push_custom_event(pending_custom_events, message_data) ==
    Append(pending_custom_events, message_data)

\* event_loop_proxy.wakeup(): the event loop gets an Awakened; a platform may
\* fold a wakeup into an Awakened that is still waiting. The result is dropped.
wakeup(queue) ==
    {Append(queue, Awakened)}
    \cup {queue : x \in {i \in 1..Len(queue) : queue[i] = Awakened}}

\* What convert_winit_event returns and leaves behind.
Converted(out, mouse_position, mouse_down, pending_custom_events, panicked) ==
    [out |-> out, mouse_position |-> mouse_position, mouse_down |-> mouse_down,
     pending_custom_events |-> pending_custom_events, panicked |-> panicked]

\* A conversion in which a left release leaves mouse_down set.
convert_winit_event_release_keeps_down(winit_event, mouse_position, mouse_down, pending_custom_events) ==
    CASE winit_event.kind = "Awakened" ->
           IF pending_custom_events = <<>>
           THEN Converted(None, mouse_position, mouse_down, <<>>, TRUE)
           ELSE Converted(Some(Event("User", vec2i(0, 0), Head(pending_custom_events))),
                          mouse_position, mouse_down, Tail(pending_custom_events), FALSE)
      [] winit_event.kind = "MouseInput" /\ winit_event.state = "Pressed"
           /\ winit_event.button = "Left" ->
           Converted(Some(Event("MouseDown", mouse_position, 0)),
                     mouse_position, TRUE, pending_custom_events, FALSE)
      [] winit_event.kind = "CursorMoved" ->
           LET pos == vec2i(F64AsI32(winit_event.position[1]),
                            F64AsI32(winit_event.position[2]))
           IN  Converted(Some(Event(IF mouse_down THEN "MouseDragged" ELSE "MouseMoved",
                                    pos, 0)),
                         pos, mouse_down, pending_custom_events, FALSE)
      [] OTHER ->
           Converted(None, mouse_position, mouse_down, pending_custom_events, FALSE)

\* fn convert_winit_event(winit_event, window, mouse_position, mouse_down)
\* -> Option<Event>; the Awakened arm runs under the EVENT_QUEUE lock
convert_winit_event(winit_event, mouse_position, mouse_down, pending_custom_events) ==
    CASE winit_event.kind = "Awakened" ->
           IF pending_custom_events = <<>>
           THEN Converted(None, mouse_position, mouse_down, <<>>, TRUE)
           ELSE Converted(Some(Event("User", vec2i(0, 0), Head(pending_custom_events))),
                          mouse_position, mouse_down, Tail(pending_custom_events), FALSE)
      [] winit_event.kind = "MouseInput" /\ winit_event.state = "Pressed"
           /\ winit_event.button = "Left" ->
           Converted(Some(Event("MouseDown", mouse_position, 0)),
                     mouse_position, TRUE, pending_custom_events, FALSE)
      [] winit_event.kind = "MouseInput" /\ winit_event.state = "Released"
           /\ winit_event.button = "Left" ->
           Converted(None, mouse_position, FALSE, pending_custom_events, FALSE)
      [] winit_event.kind = "CursorMoved" ->
           LET pos == vec2i(F64AsI32(winit_event.position[1]),
                            F64AsI32(winit_event.position[2]))
           IN  Converted(Some(Event(IF mouse_down THEN "MouseDragged" ELSE "MouseMoved",
                                    pos, 0)),
                         pos, mouse_down, pending_custom_events, FALSE)
      [] OTHER ->
           Converted(None, mouse_position, mouse_down, pending_custom_events, FALSE)

\* WindowImpl::new: the fields of the window and the EventQueue it installs
WindowImplNew ==
    [pending_events |-> <<>>, mouse_position |-> vec2i(0, 0), mouse_down |-> FALSE,
     panicked |-> FALSE]

\* No conversion has happened yet.
NoConversion == [done |-> FALSE, in |-> Awakened, out |-> None]

\* The state WindowImpl::new leaves, with n window events still to come.
WindowStart(n) ==
    /\ window_impl = WindowImplNew
    /\ event_queue = <<>>
    /\ queue_lock = 0
    /\ winit_queue = <<>>
    /\ window_events_left = n
    /\ win_pc = "idle"
    /\ pusher_pc = [t \in Pushers |-> "idle"]
    /\ pushed = <<>>
    /\ delivered = <<>>
    /\ dispatched = <<>>
    /\ conv = NoConversion

WinIdle == WindowStart(0)

----------------------------------------------------------------------------
\* The SvgRenderer session: Init is the state new() returns; one action per
\* method.  set_target and set_viewport are the session operations the
\* examples call (examples/fbo_svg.rs:21-22, examples/hello_svg.rs:131-132).
Assign(s) ==
    /\ scene_proxy' = s.scene_proxy
    /\ renderer' = s.renderer
    /\ clear_color' = s.clear_color
    /\ target_size' = s.target_size
    /\ viewport_offset' = s.viewport_offset
    /\ viewport_size' = s.viewport_size

OptSizes == {None} \cup {Some(v) : v \in ViewportSizes}
OptTargets == {None} \cup {Some(t) : t \in TargetSizes}

FitIdle ==
    /\ fit_view_box = RectNew(VZero, <<RInt(1), RInt(1)>>)
    /\ fit_viewport_size = <<1, 1>>
    /\ fit_camera = None

Init ==
    /\ FitIdle
    /\ CacheIdle
    /\ SrIdle
    /\ DemoIdle
    /\ WinIdle
    /\ \E t \in Targets, o \in Offsets, sz \in OptSizes :
         LET s == new(t.fbo, t.size[1], t.size[2], o, sz) IN
           /\ scene_proxy = s.scene_proxy
           /\ renderer = s.renderer
           /\ clear_color = s.clear_color
           /\ target_size = s.target_size
           /\ viewport_offset = s.viewport_offset
           /\ viewport_size = s.viewport_size
           /\ result = Call("new", "Unit", <<>>)
           /\ last_set_viewport = [offset |-> o, size |-> sz, known |-> sz]

SetClearColor ==
    \E c \in Colors :
      /\ \E s \in {set_clear_color(Self, c)} : Assign(s)
      /\ result' = Call("set", "Unit", <<>>)
      /\ UNCHANGED <<last_set_viewport, fitVars, cacheVars, srVars, demoVars, winVars>>

LoadSvg ==
    \E data \in SvgData :
      \E r \in {load_svg(Self, data)} :
        /\ Assign(r.self)
        /\ result' = Call("load_svg", r.ret, r.log)
        /\ UNCHANGED <<last_set_viewport, fitVars, cacheVars, srVars, demoVars, winVars>>

DrawOnce ==
    \E ts \in OptTargets :
      \E r \in {draw_once(Self, ts)} :
        /\ Assign(r.self)
        /\ result' = Call("draw_once", r.ret, r.cmds)
        /\ UNCHANGED <<last_set_viewport, fitVars, cacheVars, srVars, demoVars, winVars>>

SetTarget ==
    \E t \in Targets :
      /\ \E s \in {set_target(Self, t.fbo, t.size[1], t.size[2])} : Assign(s)
      /\ result' = Call("set", "Unit", <<>>)
      /\ UNCHANGED <<last_set_viewport, fitVars, cacheVars, srVars, demoVars, winVars>>

SetViewport ==
    \E o \in Offsets, sz \in OptSizes :
      /\ \E s \in {set_viewport(Self, o[1], o[2], sz)} : Assign(s)
      /\ result' = Call("set", "Unit", <<>>)
      /\ last_set_viewport' =
           [offset |-> o, size |-> sz,
            known |-> IF IsSome(sz) THEN sz ELSE last_set_viewport.known]
      /\ UNCHANGED <<fitVars, cacheVars, srVars, demoVars, winVars>>

Next == SetClearColor \/ LoadSvg \/ DrawOnce \/ SetTarget \/ SetViewport

Spec == Init /\ [][Next]_vars

----------------------------------------------------------------------------
\* Camera::new on its own: the arguments are drawn in the initial state and
\* the one action calls the function.
MaxFitDim == 3      \* fitted dimensions range over 1..MaxFitDim, and 100, 200

FitDims == (1..MaxFitDim) \cup {100, 200}
FitOrigins == (0..MaxOrigin) \X (0..MaxOrigin)

SvgIdle ==
    LET s == new(0, 1, 1, <<0, 0>>, None) IN
      /\ scene_proxy = s.scene_proxy
      /\ renderer = s.renderer
      /\ clear_color = s.clear_color
      /\ target_size = s.target_size
      /\ viewport_offset = s.viewport_offset
      /\ viewport_size = s.viewport_size
      /\ result = Call("new", "Unit", <<>>)
      /\ last_set_viewport = [offset |-> <<0, 0>>, size |-> None, known |-> None]

InitFit ==
    /\ SvgIdle
    /\ CacheIdle
    /\ SrIdle
    /\ DemoIdle
    /\ WinIdle
    /\ \E o \in FitOrigins, w \in FitDims, h \in FitDims :
         fit_view_box = RectNew(to_f32(o), to_f32(<<w, h>>))
    /\ fit_viewport_size \in FitDims \X FitDims
    /\ fit_camera = None

FitCamera ==
    /\ fit_camera = None
    /\ fit_camera' = Some(CameraNew(fit_view_box, fit_viewport_size))
    /\ UNCHANGED <<fit_view_box, fit_viewport_size, svgVars, cacheVars, srVars, demoVars, winVars>>

NextFit == FitCamera

SpecFit == InitFit /\ [][NextFit]_vars

----------------------------------------------------------------------------
\* The scene cache and the selection on their own.
CacheLoad ==
    \E key \in Keys, bytes \in SvgData :
      LET r == cache_load(cache, key, bytes) IN
        /\ cache' = r.cache
        /\ live_keys' = IF r.ret = "Ok" THEN live_keys \cup {key} ELSE live_keys
        /\ cache_result' = CacheCall("load", key, r.ret, r.parsed, active_key)
        /\ UNCHANGED <<active_key, fitVars, svgVars, srVars, demoVars, winVars>>

CacheUnload ==
    \E key \in Keys :
      /\ cache' = cache_unload(cache, key)
      /\ live_keys' = live_keys \ {key}
      /\ cache_result' = CacheCall("unload", key, "Unit", FALSE, active_key)
      /\ UNCHANGED <<active_key, fitVars, svgVars, srVars, demoVars, winVars>>

SelectScene ==
    \E key \in Keys :
      LET r == select_scene(cache, active_key, key) IN
        /\ active_key' = r.active
        /\ cache_result' = CacheCall("selectScene", key, r.ret, FALSE, active_key)
        /\ UNCHANGED <<cache, live_keys, fitVars, svgVars, srVars, demoVars, winVars>>

InitCache == FitIdle /\ SvgIdle /\ SrIdle /\ CacheIdle /\ DemoIdle /\ WinIdle

NextCache == CacheLoad \/ CacheUnload \/ SelectScene

SpecCache == InitCache /\ [][NextCache]_vars

----------------------------------------------------------------------------
\* The svg_renderer.rs facade on its own, from SvgRenderer::default().
SrSetClearColor ==
    \E c \in Colors :
      /\ svg_renderer' = sr_set_clear_color(svg_renderer, c)
      /\ sr_result' = Call("set_clear_color", "Unit", <<>>)
      /\ UNCHANGED <<fitVars, svgVars, cacheVars, demoVars, winVars>>

SrLoadSvg ==
    \E data \in SvgData :
      LET r == sr_load_svg(svg_renderer, data) IN
        /\ svg_renderer' = r.self
        /\ sr_result' = Call("load_svg", r.ret, r.log)
        /\ UNCHANGED <<fitVars, svgVars, cacheVars, demoVars, winVars>>

SrSetTarget ==
    \E f \in FboIds, o \in Offsets :
      /\ svg_renderer' = sr_set_target(svg_renderer, f, o[1], o[2])
      /\ sr_result' = Call("set_target", "Unit", <<>>)
      /\ UNCHANGED <<fitVars, svgVars, cacheVars, demoVars, winVars>>

SrDrawOnce ==
    LET r == sr_draw_once(svg_renderer) IN
      /\ svg_renderer' = r.self
      /\ sr_result' = Call("draw_once", r.ret, r.cmds)
      /\ UNCHANGED <<fitVars, svgVars, cacheVars, demoVars, winVars>>

InitSr == FitIdle /\ SvgIdle /\ CacheIdle /\ SrIdle /\ DemoIdle /\ WinIdle

NextSr == SrSetClearColor \/ SrLoadSvg \/ SrSetTarget \/ SrDrawOnce

SpecSr == InitSr /\ [][NextSr]_vars

----------------------------------------------------------------------------
\* main() of examples/hello.rs: the frame loop over a DemoApp.
InitDemo ==
    /\ FitIdle /\ SvgIdle /\ CacheIdle /\ SrIdle /\ WinIdle
    /\ \E c \in DemoCameras : app = DemoNew(c)
    /\ demo_pc = "loop"
    /\ events = 0
    /\ scene_count = 0
    /\ scene_index = 0

DemoRest == <<fitVars, svgVars, cacheVars, srVars, winVars>>

\* while !app.should_exit { let mut events = vec![]; if !app.dirty { .. } .. }
LoopHead ==
    /\ demo_pc = "loop"
    /\ app.frame_counter < MaxFrames
    /\ ~app.panicked
    /\ demo_pc' = IF app.should_exit THEN "exit"
                  ELSE IF ~app.dirty THEN "get_event" ELSE "try_get_event"
    /\ events' = 0
    /\ UNCHANGED <<app, scene_count, scene_index, DemoRest>>

\* events.push(app.window.get_event()): blocks until the window has an event
GetEvent ==
    /\ demo_pc = "get_event"
    /\ events' = events + 1
    /\ demo_pc' = "try_get_event"
    /\ UNCHANGED <<app, scene_count, scene_index, DemoRest>>

\* while let Some(event) = app.window.try_get_event() { events.push(event) }
TryGetEvent ==
    /\ demo_pc = "try_get_event"
    /\ \/ /\ events < MaxEvents + 1
          /\ events' = events + 1
          /\ UNCHANGED demo_pc
       \/ /\ demo_pc' = "prepare_frame"
          /\ UNCHANGED events
    /\ UNCHANGED <<app, scene_count, scene_index, DemoRest>>

PrepareFrame ==
    /\ demo_pc = "prepare_frame"
    /\ LET r == prepare_frame(app) IN
         /\ app' = r.app
         /\ scene_count' = r.ret
    /\ demo_pc' = "draw_scene"
    /\ UNCHANGED <<events, scene_index, DemoRest>>

DrawScene ==
    /\ demo_pc = "draw_scene"
    /\ ~app.panicked
    /\ app' = draw_scene(app)
    /\ demo_pc' = "begin_compositing"
    /\ UNCHANGED <<events, scene_count, scene_index, DemoRest>>

BeginCompositing ==
    /\ demo_pc = "begin_compositing"
    /\ app' = begin_compositing(app)
    /\ scene_index' = 0
    /\ demo_pc' = "composite_scene"
    /\ UNCHANGED <<events, scene_count, DemoRest>>

\* for scene_index in 0..scene_count { app.composite_scene(scene_index); }
CompositeScene ==
    /\ demo_pc = "composite_scene"
    /\ IF scene_index < scene_count
       THEN /\ app' = composite_scene(app, scene_index)
            /\ scene_index' = scene_index + 1
            /\ UNCHANGED demo_pc
       ELSE /\ demo_pc' = "finish_drawing_frame"
            /\ UNCHANGED <<app, scene_index>>
    /\ UNCHANGED <<events, scene_count, DemoRest>>

FinishDrawingFrame ==
    /\ demo_pc = "finish_drawing_frame"
    /\ app' = finish_drawing_frame(app)
    /\ demo_pc' = "loop"
    /\ UNCHANGED <<events, scene_count, scene_index, DemoRest>>

NextDemo ==
    \/ LoopHead \/ GetEvent \/ TryGetEvent \/ PrepareFrame \/ DrawScene
    \/ BeginCompositing \/ CompositeScene \/ FinishDrawingFrame

SpecDemo == InitDemo /\ [][NextDemo]_vars

----------------------------------------------------------------------------
\* The window's thread calling get_event and try_get_event, the window system
\* sending events, and other threads calling push_user_event.
InitWindow ==
    FitIdle /\ SvgIdle /\ CacheIdle /\ SrIdle /\ DemoIdle /\ WindowStart(MaxInterleaved)

WinRest == <<fitVars, svgVars, cacheVars, srVars, demoVars>>

IsWindowEvent(e) == e.kind # "Awakened"

\* The window system queues a window event for the EventsLoop.
WindowSystemSends ==
    /\ window_events_left > 0
    /\ window_events_left' = window_events_left - 1
    /\ \E e \in WindowEvents : winit_queue' = Append(winit_queue, e)
    /\ UNCHANGED <<window_impl, event_queue, queue_lock, win_pc, pusher_pc, pushed,
                   delivered, dispatched, conv, WinRest>>

\* push_user_event up to the push_back: takes the lock and queues the event
PushUserEventLocked ==
    /\ Len(pushed) < MaxPush
    /\ queue_lock = 0
    /\ \E t \in Pushers :
         /\ pusher_pc[t] = "idle"
         /\ queue_lock' = t
         /\ pusher_pc' = [pusher_pc EXCEPT ![t] = "wakeup"]
    /\ event_queue' = push_custom_event(event_queue, Len(pushed) + 1)
    /\ pushed' = Append(pushed, Len(pushed) + 1)
    /\ UNCHANGED <<window_impl, winit_queue, window_events_left, win_pc, delivered,
                   dispatched, conv, WinRest>>

\* push_user_event from the wakeup to the end, where the guard is dropped
PushUserEventWakeup ==
    /\ \E t \in Pushers :
         /\ pusher_pc[t] = "wakeup"
         /\ queue_lock = t
         /\ pusher_pc' = [pusher_pc EXCEPT ![t] = "idle"]
    /\ winit_queue' \in wakeup(winit_queue)
    /\ queue_lock' = 0
    /\ UNCHANGED <<window_impl, event_queue, window_events_left, pushed, delivered,
                   dispatched, conv, win_pc, WinRest>>

\* get_event: an event that is already pending is returned, else run_forever
GetEventCall ==
    /\ win_pc = "idle"
    /\ ~window_impl.panicked
    /\ IF window_impl.pending_events = <<>>
       THEN /\ win_pc' = "run_forever"
            /\ UNCHANGED <<window_impl, delivered>>
       ELSE /\ window_impl' = [window_impl EXCEPT !.pending_events = Tail(@)]
            /\ delivered' = Append(delivered, Head(window_impl.pending_events))
            /\ UNCHANGED win_pc
    /\ UNCHANGED <<event_queue, queue_lock, winit_queue, window_events_left,
                   pusher_pc, pushed, dispatched, conv, WinRest>>

\* try_get_event: an event that is already pending is returned, else poll_events
TryGetEventCall ==
    /\ win_pc = "idle"
    /\ ~window_impl.panicked
    /\ IF window_impl.pending_events = <<>>
       THEN /\ win_pc' = "poll_events"
            /\ UNCHANGED <<window_impl, delivered>>
       ELSE /\ window_impl' = [window_impl EXCEPT !.pending_events = Tail(@)]
            /\ delivered' = Append(delivered, Head(window_impl.pending_events))
            /\ UNCHANGED win_pc
    /\ UNCHANGED <<event_queue, queue_lock, winit_queue, window_events_left,
                   pusher_pc, pushed, dispatched, conv, WinRest>>

\* The EventsLoop hands its next event to the callback, which converts it.
\* Awakened waits for the EVENT_QUEUE lock. In run_forever a converted event
\* breaks the loop and get_event returns it; in poll_events it is kept.
Dispatch ==
    /\ win_pc \in {"run_forever", "poll_events"}
    /\ winit_queue # <<>>
    /\ LET e == Head(winit_queue)
           c == convert_winit_event(e, window_impl.mouse_position,
                                    window_impl.mouse_down, event_queue)
           stop == win_pc = "run_forever" /\ IsSome(c.out)
       IN  /\ e = Awakened => queue_lock = 0
           /\ winit_queue' = Tail(winit_queue)
           /\ event_queue' = c.pending_custom_events
           /\ window_impl' =
                [pending_events |-> IF stop \/ ~IsSome(c.out)
                                    THEN window_impl.pending_events
                                    ELSE Append(window_impl.pending_events, Unwrap(c.out)),
                 mouse_position |-> c.mouse_position,
                 mouse_down |-> c.mouse_down,
                 panicked |-> c.panicked]
           /\ delivered' = IF stop THEN Append(delivered, Unwrap(c.out)) ELSE delivered
           /\ win_pc' = IF stop \/ c.panicked THEN "idle" ELSE win_pc
           /\ dispatched' = IF IsWindowEvent(e) THEN Append(dispatched, e) ELSE dispatched
           /\ conv' = [done |-> TRUE, in |-> e, out |-> c.out]
    /\ UNCHANGED <<queue_lock, window_events_left, pusher_pc, pushed, WinRest>>

\* poll_events returns when no event is waiting; try_get_event then returns
\* pending_events.pop_front()
PollEventsReturns ==
    /\ win_pc = "poll_events"
    /\ winit_queue = <<>>
    /\ win_pc' = "idle"
    /\ IF window_impl.pending_events = <<>>
       THEN UNCHANGED <<window_impl, delivered>>
       ELSE /\ window_impl' = [window_impl EXCEPT !.pending_events = Tail(@)]
            /\ delivered' = Append(delivered, Head(window_impl.pending_events))
    /\ UNCHANGED <<event_queue, queue_lock, winit_queue, window_events_left,
                   pusher_pc, pushed, dispatched, conv, WinRest>>

NextWindow ==
    \/ WindowSystemSends \/ PushUserEventLocked \/ PushUserEventWakeup
    \/ GetEventCall \/ TryGetEventCall \/ Dispatch \/ PollEventsReturns

SpecWindow == InitWindow /\ [][NextWindow]_vars

\* The window's thread alone: a sequence of window events and no custom events.
InitMouse ==
    FitIdle /\ SvgIdle /\ CacheIdle /\ SrIdle /\ DemoIdle /\ WindowStart(MaxWindowEvents)

NextMouse ==
    \/ WindowSystemSends \/ GetEventCall \/ TryGetEventCall \/ Dispatch
    \/ PollEventsReturns

SpecMouse == InitMouse /\ [][NextMouse]_vars

----------------------------------------------------------------------------
\* The "meet" fit transform the specification defines (spec.md section 4.1):
\* s = min(viewport.x / viewBox.x, viewport.y / viewBox.y),
\* t = viewport * 0.5 - viewBox.size * (s * 0.5).
MeetFit(view_box, vp_size) ==
    LET s == RMin(RMul(RInt(vp_size[1]), RInv(view_box.size[1])),
                  RMul(RInt(vp_size[2]), RInv(view_box.size[2])))
    IN  Transform(s, VSub(VScale(to_f32(vp_size), Half),
                          VScale(view_box.size, RMul(s, Half))))

\* The centre of a rectangle: origin + size * 0.5.
RectCenter(r) == VAdd(r.origin, VScale(r.size, Half))

\* The mapped size of a view box under a transform.
MappedSize(t, view_box) == VScale(view_box.size, t.scale)

\* C1: for every view box and viewport with positive dimensions the scale
\* Camera::new computes is positive and the scaled view box fits the
\* viewport on both axes, with equality on at least one axis.
C1_MeetProperty ==
    IsSome(fit_camera) =>
      LET c == Unwrap(fit_camera)
          m == MappedSize(c, fit_view_box)
          vp == to_f32(fit_viewport_size)
      IN  /\ RLt(RInt(0), c.scale)
          /\ RLe(m[1], vp[1])
          /\ RLe(m[2], vp[2])
          /\ (m[1] = vp[1] \/ m[2] = vp[2])

\* C2: the transform Camera::new returns is the meet fit transform; a view
\* box of size (200, 100) in a viewport (100, 100) gives s = 1/2, t = (0, 25).
C2_FitFormula ==
    IsSome(fit_camera) =>
      /\ Unwrap(fit_camera) = MeetFit(fit_view_box, fit_viewport_size)
      /\ (fit_view_box.size = to_f32(<<200, 100>>) /\ fit_viewport_size = <<100, 100>>
            => /\ Unwrap(fit_camera).scale = Rat(1, 2)
               /\ Unwrap(fit_camera).origin = to_f32(<<0, 25>>))

\* C15: for every view box with positive dimensions and any origin, the
\* transform Camera::new returns, applied as p' = p * s + t, maps the centre
\* of the view box to the centre of the viewport on both axes.
C15_Centering ==
    IsSome(fit_camera) =>
      Apply(Unwrap(fit_camera), RectCenter(fit_view_box)) =
        VScale(to_f32(fit_viewport_size), Half)

\* C15 for the view boxes whose origin is (0, 0), where it holds.
C15_CenteringAtZeroOrigin ==
    (IsSome(fit_camera) /\ fit_view_box.origin = VZero) =>
      Apply(Unwrap(fit_camera), RectCenter(fit_view_box)) =
        VScale(to_f32(fit_viewport_size), Half)

----------------------------------------------------------------------------
C11_UnloadFrame ==
    [][cache_result'.op = "unload" =>
         LET key == cache_result'.key IN
           /\ cache_get(cache', key) = None
           /\ \A k \in Keys \ {key} : cache_get(cache', k) = cache_get(cache, k)
           /\ (~IsSome(cache_get(cache, key)) => cache' = cache)
           /\ cache_result'.ret = "Unit"]_vars

\* An unload has just returned while another key keeps its entry.
C11_Witness ==
    /\ cache_result.op = "unload"
    /\ cache_result.key # 0
    /\ cache_get(cache, cache_result.key) = None
    /\ \E k \in Keys \ {cache_result.key} : IsSome(cache_get(cache, k))

\* C12: load(0, bytes) fails with InvalidKey for every byte input, valid or
\* malformed, and leaves the cache unchanged; no entry is ever under key 0.
C12_KeyZeroInvalid ==
    /\ ~IsSome(cache_get(cache, 0))
    /\ \A bytes \in SvgData :
         LET r == cache_load(cache, 0, bytes) IN
           r.ret = "Err(InvalidKey)" /\ r.cache = cache
    /\ (cache_result.op = "load" /\ cache_result.key = 0
          => cache_result.ret = "Err(InvalidKey)")

\* load(0, ..) has just failed on a cache that holds entries.
C12_Witness ==
    /\ cache_result.op = "load"
    /\ cache_result.key = 0
    /\ cache_result.ret = "Err(InvalidKey)"
    /\ \E k \in Keys : IsSome(cache_get(cache, k))

C14_CacheNoEviction ==
    [][\A k \in Keys :
         (IsSome(cache_get(cache, k))
            /\ ~(cache_result'.op = "unload" /\ cache_result'.key = k))
           => cache_get(cache', k) = cache_get(cache, k)]_vars

----------------------------------------------------------------------------
\* The render command a successful draw_once submitted.
Submitted(res) == res.cmds[2]

\* svg_renderer.rs: the target is not set, or no scene is loaded.
SrNotReady ==
    ~IsSome(svg_renderer.renderer) \/ ~IsSome(svg_renderer.scene)

\* C4: a draw_once called while the target, the viewport size or the scene is
\* missing returns an error, submits nothing and leaves the session unchanged
\* (stated of svg_renderer.rs).
C4_DrawNotReady ==
    [][(sr_result'.op = "draw_once" /\ SrNotReady) =>
         /\ sr_result'.ret # "Ok"
         /\ sr_result'.cmds = <<>>
         /\ svg_renderer' = svg_renderer]_vars

\* draw_svg.rs: the target, the viewport size or the scene is missing.
NotReady ==
    ~IsSome(renderer) \/ ~IsSome(viewport_size) \/ ~IsSome(scene_proxy)

\* C4, stated of draw_svg.rs, where it holds: new() sets the target and a
\* loaded scene implies a viewport size, so the missing part is the scene.
C4_DrawSvgNotReady ==
    [][(result'.op = "draw_once" /\ NotReady) =>
         /\ result'.ret = "Err(NoLoad)"
         /\ result'.cmds = <<>>
         /\ UNCHANGED <<scene_proxy, renderer, clear_color, target_size,
                        viewport_offset, viewport_size>>]_vars

\* C5: a load_svg that returns a parse error leaves the loaded scene, the
\* viewport, the target and the clear colour as they were.
C5_FailedLoadMutatesNothing ==
    [][(result'.op = "load_svg" /\ result'.ret = "Err(Load)") =>
         UNCHANGED <<scene_proxy, renderer, clear_color, target_size,
                     viewport_offset, viewport_size>>]_vars

\* C6: the transform a successful draw_once submits is the fit transform of
\* the loaded scene's view box and the viewport size at the time of the draw.
C6_DrawUsesFitTransform ==
    (result.op = "draw_once" /\ result.ret = "Ok") =>
      Submitted(result).transform =
        MeetFit(Submitted(result).scene.svg.view_box, Unwrap(viewport_size))

\* C6 with the formula of Camera::new in place of the meet formula: the
\* submitted transform is the one built for the viewport size at the draw.
C6_DrawUsesCurrentCamera ==
    (result.op = "draw_once" /\ result.ret = "Ok") =>
      Submitted(result).transform =
        CameraNew(Submitted(result).scene.svg.view_box, Unwrap(viewport_size))

\* The natural size of an SVG, as the integers load_svg makes of it.
NaturalSize(svg) == <<AsI32(svg.size[1]), AsI32(svg.size[2])>>

\* C7: the offset is the one the last set_viewport passed; the viewport size
\* is the last size a set_viewport passed, and while none was passed it is
\* the natural size of the scene currently loaded.
C7_ViewportSizeResolution ==
    /\ viewport_offset = last_set_viewport.offset
    /\ IF IsSome(last_set_viewport.known)
       THEN viewport_size = last_set_viewport.known
       ELSE IsSome(scene_proxy) =>
              viewport_size = Some(NaturalSize(Unwrap(scene_proxy).scene.svg))

\* C8: after set_viewport(x, y, Some((w, h))) the next successful draw_once
\* submits the viewport rectangle with origin (x, y) and size (w, h).
C8_ViewportRoundTrip ==
    (result.op = "draw_once" /\ result.ret = "Ok" /\ IsSome(last_set_viewport.size)) =>
      Submitted(result).options.viewport =
        [origin |-> last_set_viewport.offset, size |-> Unwrap(last_set_viewport.size)]

\* A draw after set_viewport(.., Some(size)) of a scene whose natural size
\* differs from that size.
C8_Witness ==
    /\ result.op = "draw_once"
    /\ result.ret = "Ok"
    /\ IsSome(last_set_viewport.size)
    /\ NaturalSize(Submitted(result).scene.svg) # Unwrap(last_set_viewport.size)
    /\ NaturalSize(Submitted(result).scene.svg)[1] > 0

\* What the session shows of target and viewport.
Configured(s) ==
    [fbo |-> Unwrap(s.renderer).fbo, target_size |-> s.target_size,
     viewport_offset |-> s.viewport_offset, viewport_size |-> s.viewport_size]

TargetThenViewport(s, t, o, sz) ==
    set_viewport(set_target(s, t.fbo, t.size[1], t.size[2]), o[1], o[2], sz)
ViewportThenTarget(s, t, o, sz) ==
    set_target(set_viewport(s, o[1], o[2], sz), t.fbo, t.size[1], t.size[2])

----------------------------------------------------------------------------
\* C14: no implicit eviction.  Once load_svg has succeeded a scene stays
\* loaded and drawable through every later call, and it is that same scene
\* unless the call is another successful load_svg (the facade holds one scene).
C14_NoImplicitEviction ==
    [][IsSome(scene_proxy) =>
         /\ IsSome(scene_proxy')
         /\ (result'.op = "draw_once" => result'.ret = "Ok")
         /\ (~(result'.op = "load_svg" /\ result'.ret = "Ok") =>
               Unwrap(scene_proxy').scene.svg = Unwrap(scene_proxy).scene.svg)]_vars

----------------------------------------------------------------------------
\* set_target with a render target as its argument.
SetTargetTo(s, t) == set_target(s, t.fbo, t.size[1], t.size[2])

\* C16: set_target called twice with the same arguments leaves the session as
\* one call does (target, viewport, loaded scene, readiness for draw), and a
\* later set_target with other arguments replaces the target: the session
\* shows the new target and the next draw_once renders to it.
C16_SetTargetIdempotent ==
    \A t \in Targets, t2 \in Targets :
      \A once \in {SetTargetTo(Self, t)} :
      \A twice \in {SetTargetTo(once, t)}, redirected \in {SetTargetTo(once, t2)} :
      \A d \in {draw_once(redirected, None)} :
          /\ twice = once
          /\ once.scene_proxy = scene_proxy
          /\ draw_once(once, None).ret = draw_once(Self, None).ret
          /\ Configured(redirected) =
               [fbo |-> t2.fbo, target_size |-> t2.size,
                viewport_offset |-> viewport_offset, viewport_size |-> viewport_size]
          /\ redirected = SetTargetTo(Self, t2)
          /\ (d.ret = "Ok" =>
                /\ Submitted(d).fbo = t2.fbo
                /\ Submitted(d).options.window_size = t2.size)

\* A draw has just rendered to one target, and set_target to another target
\* sends the next draw there.
C16_Witness ==
    /\ result.op = "draw_once"
    /\ result.ret = "Ok"
    /\ \E t2 \in Targets :
         /\ t2.fbo # Submitted(result).fbo
         /\ draw_once(SetTargetTo(Self, t2), None).ret = "Ok"
         /\ Submitted(draw_once(SetTargetTo(Self, t2), None)).fbo = t2.fbo

----------------------------------------------------------------------------
\* Zero-area geometry: a viewport size (integers) or a view-box size (f32)
\* with a dimension equal to 0.
DegenerateViewport(v) == v[1] = 0 \/ v[2] = 0
DegenerateViewBox(view_box) == view_box.size[1] = RInt(0) \/ view_box.size[2] = RInt(0)

\* C17: degenerate geometry is rejected before fitting.  load_svg builds the
\* fit transform, so a load_svg that returned Ok had a view box and a viewport
\* size with no dimension equal to 0, and divided by no zero dimension.
C17_DegenerateRejected ==
    (result.op = "load_svg" /\ result.ret = "Ok") =>
      /\ ~DegenerateViewport(Unwrap(viewport_size))
      /\ ~DegenerateViewBox(Unwrap(scene_proxy).scene.svg.view_box)

\* C18: the viewport size a successful draw_once passes to the renderer is
\* > 0 in both dimensions, however the size was resolved.
C18_DrawViewportPositive ==
    (result.op = "draw_once" /\ result.ret = "Ok") =>
      /\ Submitted(result).options.viewport.size[1] > 0
      /\ Submitted(result).options.viewport.size[2] > 0

----------------------------------------------------------------------------
\* The raw graphics calls of a scissored clear of rect on framebuffer fbo
\* (spec.md section 6).
RawClearCalls(fbo, rect, color) ==
    <<[cmd |-> "bind_framebuffer", fbo |-> fbo],
      [cmd |-> "viewport", rect |-> rect],
      [cmd |-> "enable_scissor", rect |-> rect],
      [cmd |-> "clear_color_buffer", color |-> color],
      [cmd |-> "disable_scissor"]>>

\* C19: a successful draw_once issues bind framebuffer, set viewport, enable
\* scissor, clear colour buffer, disable scissor, in this order and before it
\* submits the scene to the renderer, and issues no scissor call after them.
C19_ClearCallOrder ==
    (result.op = "draw_once" /\ result.ret = "Ok") =>
      LET cmds == result.cmds
          rect == [origin |-> viewport_offset, size |-> Unwrap(viewport_size)]
          calls == RawClearCalls(Unwrap(renderer).fbo, rect, clear_color)
      IN  /\ Len(cmds) > Len(calls)
          /\ \A i \in 1..Len(calls) : cmds[i] = calls[i]
          /\ \E i \in (Len(calls) + 1)..Len(cmds) : cmds[i].cmd = "render"
          /\ \A i \in (Len(calls) + 1)..Len(cmds) :
               cmds[i].cmd \notin {"enable_scissor", "clear_color_buffer"}

----------------------------------------------------------------------------
\* The same SVG bytes without the unsupported features.
Supported(doc) == [doc EXCEPT !.unsupported = {}]

\* C21: unsupported features are a warning, not an error.  For parseable
\* bytes whose scene builder reports unsupported-feature flags, load_svg
\* returns Ok and leaves the session, the stored scene included, as the load
\* of the same SVG with no flags leaves it; the flags are only logged.
C21_UnsupportedIsWarning ==
    /\ \A data \in ValidSvg :
         \A r \in {load_svg(Self, data)}, r0 \in {load_svg(Self, Supported(data))} :
             /\ r.ret = "Ok"
             /\ r.self = r0.self
             /\ IsSome(r.self.scene_proxy)
             /\ (data.unsupported # {} => r.log # <<>> /\ r0.log = <<>>)
    /\ (result.op = "load_svg" /\ result.cmds # <<>>) =>
         result.ret = "Ok" /\ IsSome(scene_proxy)

\* A load_svg of an SVG with unsupported features has just returned, after
\* logging the warning.
C21_Witness ==
    /\ result.op = "load_svg"
    /\ result.cmds # <<>>
    /\ result.cmds[1].cmd = "log_warn"
    /\ result.ret = "Ok"
    /\ draw_once(Self, None).ret = "Ok"

----------------------------------------------------------------------------
\* C22: after new() the renderer is Some in every state, so draw_once never
\* unwraps its target_size argument: no draw_once has panicked and
\* draw_once(None) does not panic.
C22_RendererAlwaysSome ==
    /\ IsSome(renderer)
    /\ (result.op = "draw_once" => result.ret # "Panic")
    /\ draw_once(Self, None).ret # "Panic"

\* draw_once has just rendered, and draw_once(None) renders again.
C22_Witness ==
    /\ result.op = "draw_once"
    /\ result.ret = "Ok"
    /\ draw_once(Self, None).ret = "Ok"

\* C23: after every step a loaded scene implies a viewport size, a viewport
\* size that was Some is still Some, and no draw_once panics on
\* viewport_size.unwrap().
C23_SceneImpliesViewportSize ==
    [][/\ (IsSome(scene_proxy') => IsSome(viewport_size'))
       /\ (IsSome(viewport_size) => IsSome(viewport_size'))
       /\ (result'.op = "draw_once" => result'.ret # "Panic")]_vars

\* A load_svg has just failed after a successful one had defaulted the
\* viewport size.
C23_Witness ==
    /\ result.op = "load_svg"
    /\ result.ret = "Err(Load)"
    /\ ~IsSome(last_set_viewport.known)
    /\ IsSome(viewport_size)
    /\ ~IsSome(scene_proxy)

C26_DrawUsesCurrentOptions ==
    (result.op = "draw_once" /\ result.ret = "Ok") =>
      Submitted(result).options =
        RendererOptions(clear_color, viewport_offset, Unwrap(viewport_size), target_size)

\* A draw has just used a clear colour other than the constructor default.
C26_Witness ==
    /\ result.op = "draw_once"
    /\ result.ret = "Ok"
    /\ Submitted(result).options.background_color = Some("yellow")

----------------------------------------------------------------------------
\* The calls main() makes while a frame is being drawn.
InFrame == {"draw_scene", "begin_compositing", "composite_scene", "finish_drawing_frame"}

\* C27: in the frame loop the device's begin_commands and end_commands
\* alternate, starting with begin_commands, and no batch is open when a frame
\* has finished.
C27_CommandsAlternate ==
    /\ \A i \in 1..Len(app.device_calls) :
         app.device_calls[i] = IF i % 2 = 1 THEN "begin_commands" ELSE "end_commands"
    /\ (demo_pc \in {"loop", "get_event", "try_get_event", "prepare_frame"} =>
          Len(app.device_calls) % 2 = 0)

\* The second frame is being composited: its batch is open after two frames'
\* worth of calls.
C27_Witness ==
    /\ demo_pc = "composite_scene"
    /\ app.frame_counter = 1
    /\ Len(app.device_calls) = 7
    /\ app.device_calls[7] = "begin_commands"

\* C28: current_frame is Some exactly between a prepare_frame and the
\* following finish_drawing_frame; no unwrap panics; prepare_frame clears
\* dirty; each finished frame increases frame_counter by exactly one, and
\* nothing else changes it.
C28_FrameBookkeeping ==
    [][/\ (IsSome(app'.current_frame) <=> demo_pc' \in InFrame)
       /\ ~app'.panicked
       /\ (demo_pc = "prepare_frame" => ~app'.dirty /\ IsSome(app'.render_transform))
       /\ app'.frame_counter =
            IF demo_pc = "finish_drawing_frame"
            THEN app.frame_counter + 1 ELSE app.frame_counter]_vars

\* A second frame has been finished after the window handed over events.
C28_Witness ==
    /\ demo_pc = "loop"
    /\ app.frame_counter = 2
    /\ ~IsSome(app.current_frame)
    /\ ~app.dirty
    /\ events > 1

----------------------------------------------------------------------------
\* The message_data of the Event::User events in a sequence of Events.
IsUserEvent(e) == e.kind = "User"
UserMessages(evs) ==
    LET u == SelectSeq(evs, IsUserEvent) IN [i \in 1..Len(u) |-> u[i].message_data]

\* C29: whatever the interleaving of push_user_event calls with the event
\* loop, an Awakened always finds a pending custom event (the expect never
\* fails), and the custom events come out in the order they were pushed.
C29_CustomEventsInOrder ==
    /\ ~window_impl.panicked
    /\ LET d == UserMessages(delivered) IN
         /\ Len(d) <= Len(pushed)
         /\ d = SubSeq(pushed, 1, Len(d))

\* Two custom events were pushed and both were returned, the second one
\* while a mouse event was returned in between or before.
C29_Witness ==
    /\ Len(pushed) = 2
    /\ UserMessages(delivered) = <<1, 2>>
    /\ Len(delivered) > 2
    /\ conv.in = Awakened

\* Whether the most recent left-button event of a history was a press.
RECURSIVE LeftHeld(_)
LeftHeld(h) ==
    IF h = <<>> THEN FALSE
    ELSE LET e == h[Len(h)] IN
           IF e.kind = "MouseInput" /\ e.button = "Left"
           THEN e.state = "Pressed"
           ELSE LeftHeld(SubSeq(h, 1, Len(h) - 1))

\* The cursor position recorded after a history: that of its last CursorMoved
\* as integers, (0, 0) if there was none.
RECURSIVE LastCursor(_)
LastCursor(h) ==
    IF h = <<>> THEN vec2i(0, 0)
    ELSE LET e == h[Len(h)] IN
           IF e.kind = "CursorMoved"
           THEN vec2i(F64AsI32(e.position[1]), F64AsI32(e.position[2]))
           ELSE LastCursor(SubSeq(h, 1, Len(h) - 1))

\* C30: a CursorMoved becomes MouseDragged exactly when the most recent
\* left-button event before it was a press, and MouseMoved otherwise; a left
\* press becomes MouseDown at the last recorded cursor position; a left
\* release becomes no event.
C30_MouseTranslation ==
    (conv.done /\ IsWindowEvent(conv.in)) =>
      LET before == SubSeq(dispatched, 1, Len(dispatched) - 1)
          e == conv.in
      IN  /\ dispatched[Len(dispatched)] = e
          /\ e.kind = "CursorMoved" =>
                /\ IsSome(conv.out)
                /\ Unwrap(conv.out).kind =
                     IF LeftHeld(before) THEN "MouseDragged" ELSE "MouseMoved"
          /\ (e.kind = "MouseInput" /\ e.button = "Left" /\ e.state = "Pressed") =>
                conv.out = Some(Event("MouseDown", LastCursor(before), 0))
          /\ (e.kind = "MouseInput" /\ e.button = "Left" /\ e.state = "Released") =>
                conv.out = None

\* The cursor moves after a left press and a left release: MouseMoved.
C30_Witness ==
    /\ Len(dispatched) = 3
    /\ dispatched[1].kind = "MouseInput" /\ dispatched[1].button = "Left"
    /\ dispatched[1].state = "Pressed"
    /\ dispatched[2].kind = "MouseInput" /\ dispatched[2].button = "Left"
    /\ dispatched[2].state = "Released"
    /\ conv.in.kind = "CursorMoved"
    /\ conv.out = Some(Event("MouseMoved", vec2i(1, -1), 0))

=============================================================================
